---- MODULE Spec2Model ----
(***************************************************************************)
(* A model of src/main.py (Companyfinder): the link extractor, the GitHub  *)
(* organization scoring and validation, the member enrichment waterfall    *)
(* and the search run that chains them.  Strings are sequences of          *)
(* one-character strings, so that the regular expressions, the trimming    *)
(* and the case folding of the source are computed, not assumed.           *)
(***************************************************************************)
EXTENDS Integers, Sequences, FiniteSets, TLC

VARIABLES
    pc,                 \* position of the running script or call
    \* extract_links
    text,               \* the text argument
    domains,            \* the domains argument of the filtered call
    links_all,          \* extract_links(text), or NotCalled
    links_dom,          \* extract_links(text, domains), or NotCalled
    \* the search run (the body of the Search button)
    company_name,       \* the text input
    website_text,       \* report_sections["Website"]
    github_text,        \* report_sections["GitHub"]
    website_url,        \* website_links[0], or None
    llm_githubs,        \* extract_links(github_text, ["github.com"])
    site_counts,        \* extract_githubs_from_site(website_url): <<org, count>> pairs
    best_site_org_url,  \* choose_best_org_from_site(site_counts, company_name)
    candidates,         \* chosen_githubs while it is a set
    pending,            \* filter_github_orgs: the urls not yet iterated over
    checks,             \* filter_github_orgs: url -> status the existence check gave
    chosen_githubs,     \* filter_github_orgs: valid_orgs, then the resolved list
    rendered,           \* the output section has been written
    member_calls,       \* the links get_github_members was called with
    \* get_github_members
    github_url,         \* the argument
    items,              \* the logins the members listing returned
    idx,                \* the next item of the loop
    members,            \* the list being built
    result,             \* the returned list, or NotCalled
    last                \* the responses the latest loop iteration received

linkVars == <<text, domains, links_all, links_dom>>
runVars == <<company_name, website_text, github_text, website_url, llm_githubs,
             site_counts, best_site_org_url, candidates, pending, checks,
             chosen_githubs, rendered, member_calls>>
memberVars == <<github_url, items, idx, members, result, last>>
vars == <<pc, linkVars, runVars, memberVars>>

\* values no string equals: Python's None, and "no call made yet"
NotCalled == <<"not-called">>
None == <<"None">>

(***************************************************************************)
(* Characters and strings                                                  *)
(***************************************************************************)
UpperSeq == <<"A", "B", "C", "D", "E", "F", "G", "H", "I", "J", "K", "L", "M",
              "N", "O", "P", "Q", "R", "S", "T", "U", "V", "W", "X", "Y", "Z">>
LowerSeq == <<"a", "b", "c", "d", "e", "f", "g", "h", "i", "j", "k", "l", "m",
              "n", "o", "p", "q", "r", "s", "t", "u", "v", "w", "x", "y", "z">>
UpperChars == {UpperSeq[i] : i \in 1..26}
LowerChars == {LowerSeq[i] : i \in 1..26}
DigitChars == {"0", "1", "2", "3", "4", "5", "6", "7", "8", "9"}
Whitespace == {" ", "\t", "\n", "\r"}

\* str.lower() on one character, then on a string
LowerChar(c) ==
    IF c \in UpperChars
    THEN LowerSeq[CHOOSE i \in 1..26 : UpperSeq[i] = c]
    ELSE c
Lower(s) == [i \in 1..Len(s) |-> LowerChar(s[i])]

\* s[i:].startswith(p), 1-based
StartsWithAt(s, i, p) ==
    /\ i >= 1
    /\ i + Len(p) - 1 <= Len(s)
    /\ SubSeq(s, i, i + Len(p) - 1) = p

\* Python's "p in s"
Contains(s, p) == \E i \in 1..(Len(s) + 1) : StartsWithAt(s, i, p)

\* the last index of the maximal run, starting at i, of characters outside
\* stop (a negated character class under a greedy +); i - 1 when it is empty
RECURSIVE RunEndExcl(_, _, _)
RunEndExcl(s, i, stop) ==
    IF i > Len(s) \/ s[i] \in stop THEN i - 1 ELSE RunEndExcl(s, i + 1, stop)

\* the same for a positive character class
RECURSIVE RunEndIn(_, _, _)
RunEndIn(s, i, cls) ==
    IF i > Len(s) \/ s[i] \notin cls THEN i - 1 ELSE RunEndIn(s, i + 1, cls)

\* str.strip(): whitespace off both ends
RECURSIVE LStrip(_)
LStrip(s) == IF s # <<>> /\ Head(s) \in Whitespace THEN LStrip(Tail(s)) ELSE s
RECURSIVE RStripSet(_, _)
RStripSet(s, set) ==
    IF s # <<>> /\ s[Len(s)] \in set
    THEN RStripSet(SubSeq(s, 1, Len(s) - 1), set)
    ELSE s
Strip(s) == RStripSet(LStrip(s), Whitespace)

HttpScheme == <<"h", "t", "t", "p", ":", "/", "/">>
HttpsScheme == <<"h", "t", "t", "p", "s", ":", "/", "/">>

\* the length matched by https?:// at i, 0 when it does not match
SchemeLen(s, i) ==
    IF StartsWithAt(s, i, HttpsScheme) THEN Len(HttpsScheme)
    ELSE IF StartsWithAt(s, i, HttpScheme) THEN Len(HttpScheme)
    ELSE 0

(***************************************************************************)
(* extract_links                                                           *)
(***************************************************************************)
NoMatch == [ok |-> FALSE, pos |-> 0, url |-> <<>>, end |-> 0]

\* \[([^\]]*?)\]\((https?://[^\s)]+)\) anchored at i: the label runs to the
\* first "]", the URL to the first whitespace or ")", which must be a ")"
MdUrlStop == Whitespace \cup {")"}
MdMatchAt(s, i) ==
    IF i > Len(s) \/ s[i] # "[" THEN NoMatch
    ELSE LET j == RunEndExcl(s, i + 1, {"]"}) + 1   \* the closing "]"
             u == j + 2                             \* where the URL starts
             k == SchemeLen(s, u)
             e == RunEndExcl(s, u + k, MdUrlStop)
         IN  IF /\ j <= Len(s)
                /\ j + 1 <= Len(s) /\ s[j + 1] = "("
                /\ k > 0
                /\ e >= u + k
                /\ e + 1 <= Len(s) /\ s[e + 1] = ")"
             THEN [ok |-> TRUE, pos |-> u, url |-> SubSeq(s, u, e), end |-> e + 1]
             ELSE NoMatch

\* https?://[^\s\)\]\}\,\'"]+ anchored at i
BareUrlStop == Whitespace \cup {")", "]", "}", ",", "'", "\""}
BareMatchAt(s, i) ==
    LET k == SchemeLen(s, i)
        e == RunEndExcl(s, i + k, BareUrlStop)
    IN  IF k > 0 /\ e >= i + k
        THEN [ok |-> TRUE, pos |-> i, url |-> SubSeq(s, i, e), end |-> e]
        ELSE NoMatch

\* re.finditer: the leftmost match from i on, then on from its end
RECURSIVE MdFindIter(_, _)
MdFindIter(s, i) ==
    IF i > Len(s) THEN <<>>
    ELSE LET m == MdMatchAt(s, i)
         IN  IF m.ok THEN <<m>> \o MdFindIter(s, m.end + 1)
             ELSE MdFindIter(s, i + 1)

RECURSIVE BareFindIter(_, _)
BareFindIter(s, i) ==
    IF i > Len(s) THEN <<>>
    ELSE LET m == BareMatchAt(s, i)
         IN  IF m.ok THEN <<m>> \o BareFindIter(s, m.end + 1)
             ELSE BareFindIter(s, i + 1)

\* add(url): trim, drop trailing punctuation, keep when new
TrailingPunct == {")", ".", ",", "]", ">", "'", "\""}
CleanUrl(url) == RStripSet(Strip(url), TrailingPunct)

InSeq(x, seq) == \E i \in 1..Len(seq) : seq[i] = x
SeqRange(seq) == {seq[i] : i \in 1..Len(seq)}

Add(ordered, url) ==
    LET u == CleanUrl(url)
    IN  IF u # <<>> /\ ~InSeq(u, ordered) THEN Append(ordered, u) ELSE ordered

RECURSIVE AddAll(_, _)
AddAll(ordered, matches) ==
    IF matches = <<>> THEN ordered
    ELSE AddAll(Add(ordered, Head(matches).url), Tail(matches))

\* the passes in the other order
CollectLinksBareFirst(s) == AddAll(AddAll(<<>>, BareFindIter(s, 1)), MdFindIter(s, 1))

\* the two passes of extract_links, the markdown links first
CollectLinks(s) == AddAll(AddAll(<<>>, MdFindIter(s, 1)), BareFindIter(s, 1))

\* any(d in u.lower() for d in domains), domains already lowered
MatchesDomain(u, doms) == \E i \in 1..Len(doms) : Contains(Lower(u), Lower(doms[i]))

RECURSIVE FilterDomains(_, _)
FilterDomains(ordered, doms) ==
    IF ordered = <<>> THEN <<>>
    ELSE (IF MatchesDomain(Head(ordered), doms) THEN <<Head(ordered)>> ELSE <<>>)
         \o FilterDomains(Tail(ordered), doms)

\* an extractor that forgets its domains argument
ExtractLinksUnfiltered(s, doms) == CollectLinks(s)

\* extract_links(text, domains); domains = <<>> stands for None and for []
ExtractLinks(s, doms) ==
    IF doms # <<>> THEN FilterDomains(CollectLinks(s), doms) ELSE CollectLinks(s)

(***************************************************************************)
(* get_org_from_github_url, extract_githubs_from_site                      *)
(***************************************************************************)
GithubHost == <<"g", "i", "t", "h", "u", "b", ".", "c", "o", "m", "/">>
GithubRoot == <<"h", "t", "t", "p", "s", ":", "/", "/",
                "g", "i", "t", "h", "u", "b", ".", "c", "o", "m", "/">>

\* [A-Za-z0-9_.-] and, for the lowered page, [a-z0-9_.-]
OrgChars == UpperChars \cup LowerChars \cup DigitChars \cup {"_", ".", "-"}

\* re.search(r'github\.com/([A-Za-z0-9_.-]+)', url, re.I): group 1 of the
\* leftmost match, or None
RECURSIVE OrgSearchFrom(_, _, _)
OrgSearchFrom(url, folded, i) ==
    IF i > Len(url) THEN None
    ELSE LET o == i + Len(GithubHost)
             e == RunEndIn(url, o, OrgChars)
         IN  IF StartsWithAt(folded, i, GithubHost) /\ e >= o
             THEN SubSeq(url, o, e)
             ELSE OrgSearchFrom(url, folded, i + 1)
get_org_from_github_url(url) == OrgSearchFrom(url, Lower(url), 1)

\* f"https://github.com/{org}"
OrgUrl(org) == GithubRoot \o org

\* re.findall(r'github\.com/([a-z0-9_.-]+)(?:/[a-z0-9_.-]+)?', html): group 1
\* of every match, the search going on after the optional second segment
RECURSIVE SiteOrgMatches(_, _, _)
SiteOrgMatches(html, folded, i) ==
    IF i > Len(html) THEN <<>>
    ELSE LET o == i + Len(GithubHost)
             e == RunEndIn(html, o, OrgChars)
             r == RunEndIn(html, e + 2, OrgChars)
             stop == IF e + 1 <= Len(html) /\ html[e + 1] = "/" /\ r >= e + 2
                     THEN r ELSE e
         IN  IF StartsWithAt(folded, i, GithubHost) /\ e >= o
             THEN <<SubSeq(html, o, e)>> \o SiteOrgMatches(html, folded, stop + 1)
             ELSE SiteOrgMatches(html, folded, i + 1)

\* counts[org] = counts.get(org, 0) + 1, a dict in insertion order
Tally(counts, org) ==
    IF \E i \in 1..Len(counts) : counts[i][1] = org
    THEN [i \in 1..Len(counts) |->
             IF counts[i][1] = org THEN <<org, counts[i][2] + 1>> ELSE counts[i]]
    ELSE Append(counts, <<org, 1>>)

RECURSIVE TallyAll(_, _)
TallyAll(counts, matches) ==
    IF matches = <<>> THEN counts
    ELSE LET org == Lower(Strip(Head(matches)))
         IN  TallyAll(IF org = <<>> THEN counts ELSE Tally(counts, org), Tail(matches))

\* extract_githubs_from_site, given what the GET answered: an exception of
\* requests.get (raised), or a status and a body
extract_githubs_from_site(response) ==
    IF response.raised \/ response.status # 200 THEN <<>>
    ELSE LET html == Lower(response.body)
         IN  TallyAll(<<>>, SiteOrgMatches(html, Lower(html), 1))

(***************************************************************************)
(* choose_best_org_from_site                                               *)
(***************************************************************************)
AlnumLower == LowerChars \cup DigitChars

\* re.findall(r'[a-z0-9]+', company)
RECURSIVE FindTokens(_, _)
FindTokens(company, i) ==
    IF i > Len(company) THEN <<>>
    ELSE LET e == RunEndIn(company, i, AlnumLower)
         IN  IF e >= i THEN <<SubSeq(company, i, e)>> \o FindTokens(company, e + 1)
             ELSE FindTokens(company, i + 1)

\* sum(1 for tok in tokens if tok and tok in org)
RECURSIVE Overlap(_, _)
Overlap(tokens, org) ==
    IF tokens = <<>> THEN 0
    ELSE (IF Head(tokens) # <<>> /\ Contains(org, Head(tokens)) THEN 1 ELSE 0)
         + Overlap(Tail(tokens), org)

\* the score of one dictionary item
OrgScore(org, count, company, tokens) ==
    count
    + (IF Contains(company, org)
          \/ \E k \in 1..Len(tokens) : tokens[k] # <<>> /\ Contains(org, tokens[k])
       THEN 5 ELSE 0)
    + Overlap(tokens, org) * 2

\* a loop that lets a later item of equal score win
BetterOrEqual(score, best_score) == score >= best_score

\* if score > best_score
Better(score, best_score) == score > best_score

\* the loop over counts_dict.items(), from item i with the best so far
RECURSIVE BestFrom(_, _, _, _, _)
BestFrom(counts, i, company, best, best_score) ==
    IF i > Len(counts) THEN best
    ELSE LET score == OrgScore(counts[i][1], counts[i][2], company,
                               FindTokens(company, 1))
         IN  IF Better(score, best_score)
             THEN BestFrom(counts, i + 1, company, counts[i][1], score)
             ELSE BestFrom(counts, i + 1, company, best, best_score)

choose_best_org_from_site(counts_dict, name) ==
    IF counts_dict = <<>> THEN None
    ELSE LET best == BestFrom(counts_dict, 1, Lower(name), None, -1)
         IN  IF best # None /\ best # <<>> THEN OrgUrl(best) ELSE None

(***************************************************************************)
(* extract_emails_from_text, scrape_github_profile_for_contacts,           *)
(* get_email_from_events                                                   *)
(***************************************************************************)
Letters == UpperChars \cup LowerChars
EmailLocal == Letters \cup DigitChars \cup {".", "_", "%", "+", "-"}
EmailDomain == Letters \cup DigitChars \cup {".", "-"}

\* Python's "not v" for a string or None
Falsy(v) == v = None \/ v = <<>>

\* [A-Za-z0-9._%+-]+@[A-Za-z0-9.-]+\.[A-Za-z]{2,} anchored at i: the local
\* part is the whole run before "@"; the domain is the longest prefix of the
\* run after "@" that a "." and two letters follow; the letters run on
EmailMatchAt(s, i) ==
    LET e1 == RunEndIn(s, i, EmailLocal)
        e2 == RunEndIn(s, e1 + 2, EmailDomain)
        dots == {d \in (e1 + 2)..(e2 - 1) :
                    /\ s[d + 1] = "."
                    /\ RunEndIn(s, d + 2, Letters) >= d + 3}
        d == CHOOSE x \in dots : \A y \in dots : y <= x
        e3 == RunEndIn(s, d + 2, Letters)
    IN  IF e1 >= i /\ e1 + 1 <= Len(s) /\ s[e1 + 1] = "@" /\ dots # {}
        THEN [ok |-> TRUE, pos |-> i, url |-> SubSeq(s, i, e3), end |-> e3]
        ELSE NoMatch

\* re.search of the email pattern: the leftmost match, or None
RECURSIVE EmailSearchFrom(_, _)
EmailSearchFrom(s, i) ==
    IF i > Len(s) THEN None
    ELSE LET m == EmailMatchAt(s, i)
         IN  IF m.ok THEN m.url ELSE EmailSearchFrom(s, i + 1)
EmailSearch(s) == EmailSearchFrom(s, 1)

\* re.search(r"(https?://[^\s]+linkedin\.com[^\s]*)", bio, re.I): from the
\* leftmost scheme whose run of non-blanks holds "linkedin.com" after at
\* least one more character, to the end of that run
LinkedinDomain == <<"l", "i", "n", "k", "e", "d", "i", "n", ".", "c", "o", "m">>
RECURSIVE LinkedinSearchFrom(_, _, _)
LinkedinSearchFrom(s, folded, i) ==
    IF i > Len(s) THEN None
    ELSE LET k == SchemeLen(folded, i)
             e == RunEndExcl(s, i + k, Whitespace)
         IN  IF /\ k > 0
                /\ \E q \in (i + k + 1)..e :
                      /\ q + Len(LinkedinDomain) - 1 <= e
                      /\ StartsWithAt(folded, q, LinkedinDomain)
             THEN SubSeq(s, i, e)
             ELSE LinkedinSearchFrom(s, folded, i + 1)
LinkedinSearch(s) == LinkedinSearchFrom(s, Lower(s), 1)

MailtoPrefix == <<"m", "a", "i", "l", "t", "o", ":">>

\* str.replace(old, ""): every occurrence of old, left to right, removed
RECURSIVE RemoveAll(_, _)
RemoveAll(s, old) ==
    IF s = <<>> THEN <<>>
    ELSE IF StartsWithAt(s, 1, old) THEN RemoveAll(SubSeq(s, Len(old) + 1, Len(s)), old)
    ELSE <<Head(s)>> \o RemoveAll(Tail(s), old)

\* str.lstrip("/")
RECURSIVE LStripSlash(_)
LStripSlash(s) == IF s # <<>> /\ Head(s) = "/" THEN LStripSlash(Tail(s)) ELSE s

\* the loop over the anchors of the profile page: the last LinkedIn href and
\* the last mailto href win
RECURSIVE ScanAnchors(_, _, _)
ScanAnchors(anchors, linkedin, email) ==
    IF anchors = <<>> THEN <<linkedin, email>>
    ELSE LET href == Strip(Head(anchors))
             l == IF Contains(Lower(href), LinkedinDomain)
                  THEN (IF StartsWithAt(href, 1, <<"h", "t", "t", "p">>)
                        THEN href
                        ELSE HttpsScheme \o LStripSlash(href))
                  ELSE linkedin
             m == IF StartsWithAt(Lower(href), 1, MailtoPrefix)
                  THEN Strip(RemoveAll(href, MailtoPrefix))
                  ELSE email
         IN  ScanAnchors(Tail(anchors), l, m)

\* scrape_github_profile_for_contacts, given what the GET of the profile page
\* answered: <<linkedin, email>>
scrape_github_profile_for_contacts(response) ==
    IF response.raised \/ response.status # 200 THEN <<None, None>>
    ELSE LET found == ScanAnchors(response.anchors, None, None)
             in_text == EmailSearch(response.text)
         IN  IF Falsy(found[2])
             THEN <<found[1], IF in_text # None THEN in_text ELSE found[2]>>
             ELSE found

Noreply == <<"n", "o", "r", "e", "p", "l", "y">>

\* an events scan that takes the first commit email, noreply or not
UsableCommitEmailAny(email) == ~Falsy(email)

\* if email and "noreply" not in email
UsableCommitEmail(email) == ~Falsy(email) /\ ~Contains(email, Noreply)

RECURSIVE FirstUsableEmail(_)
FirstUsableEmail(emails) ==
    IF emails = <<>> THEN None
    ELSE IF UsableCommitEmail(Head(emails)) THEN Head(emails)
    ELSE FirstUsableEmail(Tail(emails))

RECURSIVE ScanEvents(_)
ScanEvents(events) ==
    IF events = <<>> THEN None
    ELSE LET found == IF Head(events).type = "PushEvent"
                      THEN FirstUsableEmail(Head(events).commits)
                      ELSE None
         IN  IF found # None THEN found ELSE ScanEvents(Tail(events))

\* get_email_from_events, given what the GET of the public events answered
get_email_from_events(response) ==
    IF response.raised \/ response.status # 200 THEN None
    ELSE ScanEvents(response.events)

(***************************************************************************)
(* get_github_members                                                      *)
(***************************************************************************)
XRoot == <<"h", "t", "t", "p", "s", ":", "/", "/", "x", ".", "c", "o", "m", "/">>

\* a waterfall step that lets the later source overwrite the earlier one
TakeLatest(current, candidate) == IF ~Falsy(candidate) THEN candidate ELSE current

\* "if not email and scraped_email: email = scraped_email" and its likes: a
\* later source fills a field only while it is empty
KeepFirst(current, candidate) ==
    IF Falsy(current) /\ ~Falsy(candidate) THEN candidate ELSE current

BioOf(ud) == IF Falsy(ud.bio) THEN <<>> ELSE ud.bio
BlogOf(ud) == IF Falsy(ud.blog) THEN None ELSE ud.blog

\* email after the profile field and the bio
EmailAfterBio(ud) ==
    LET in_bio == EmailSearch(BioOf(ud))
    IN  IF Falsy(ud.email) /\ in_bio # None THEN in_bio ELSE ud.email

\* linkedin_link after the bio and the blog field
LinkedinAfterBlog(ud) ==
    LET in_bio == IF Contains(Lower(BioOf(ud)), LinkedinDomain)
                  THEN LinkedinSearch(BioOf(ud))
                  ELSE None
    IN  IF Falsy(in_bio) /\ BlogOf(ud) # None
           /\ Contains(Lower(BlogOf(ud)), LinkedinDomain)
        THEN BlogOf(ud)
        ELSE in_bio

\* if not linkedin_link or not email
NeedsScrape(ud) == Falsy(LinkedinAfterBlog(ud)) \/ Falsy(EmailAfterBio(ud))

\* email and linkedin_link after the scrape, made only when one is empty
EmailAfterScrape(ud, scrape) ==
    IF NeedsScrape(ud)
    THEN KeepFirst(EmailAfterBio(ud), scrape_github_profile_for_contacts(scrape)[2])
    ELSE EmailAfterBio(ud)

LinkedinAfterScrape(ud, scrape) ==
    IF NeedsScrape(ud)
    THEN KeepFirst(LinkedinAfterBlog(ud), scrape_github_profile_for_contacts(scrape)[1])
    ELSE LinkedinAfterBlog(ud)

\* if not email, after the scrape
NeedsEvents(ud, scrape) == Falsy(EmailAfterScrape(ud, scrape))

\* the dictionary appended for a member whose profile lookup answered 200
MemberEntry(login, ud, scrape, events) ==
    LET email == EmailAfterScrape(ud, scrape)
        blog == BlogOf(ud)
    IN  [login |-> login,
         name |-> ud.name,
         url |-> ud.html_url,
         x |-> IF Falsy(ud.twitter_username) THEN None
               ELSE XRoot \o ud.twitter_username,
         email |-> IF Falsy(email)
                   THEN KeepFirst(email, get_email_from_events(events))
                   ELSE email,
         blog |-> IF blog # None /\ ~Contains(Lower(blog), LinkedinDomain)
                  THEN blog ELSE None,
         linkedin |-> LinkedinAfterScrape(ud, scrape)]

(***************************************************************************)
(* What the GitHub API and the profile pages answer                        *)
(***************************************************************************)
MaxMembers == 2

LoginPool == <<<<"a", "l">>, <<"b", "o">>, <<"c", "y">>>>

\* the items of a members listing: up to n, the k-th with the k-th login of
\* the pool or with none
RECURSIVE ItemLists(_)
ItemLists(n) ==
    IF n = 0 THEN {<<>>}
    ELSE LET shorter == ItemLists(n - 1)
         IN  shorter \cup
             {Append(l, v) : l \in {m \in shorter : Len(m) = n - 1},
                             v \in {LoginPool[n], None}}

MemberUrls == {<<"h", "t", "t", "p", "s", ":", "/", "/", "g", "i", "t", "h", "u", "b", ".", "c", "o", "m", "/", "a", "c", "m", "e">>, <<"h", "t", "t", "p", "s", ":", "/", "/", "a", "c", "m", "e", ".", "i", "o">>}

MembersResponses(n) ==
    {[raised |-> TRUE, status |-> 0, logins |-> <<>>],
     [raised |-> FALSE, status |-> 403, logins |-> <<>>]}
    \cup {[raised |-> FALSE, status |-> 200, logins |-> l] : l \in ItemLists(n)}

NoProfile ==
    [email |-> None, bio |-> None, blog |-> None,
     twitter_username |-> None, name |-> None, html_url |-> None]

Profiles == {
    [email |-> <<"a", "p", "i", "@", "x", ".", "i", "o">>, bio |-> <<"m", "a", "i", "l", " ", "b", "i", "o", "@", "x", ".", "i", "o">>, blog |-> <<"h", "t", "t", "p", "s", ":", "/", "/", "w", "w", "w", ".", "l", "i", "n", "k", "e", "d", "i", "n", ".", "c", "o", "m", "/", "i", "n", "/", "b">>,
     twitter_username |-> <<"t", "w">>, name |-> <<"A", "l">>, html_url |-> <<"h", "t", "t", "p", "s", ":", "/", "/", "g", "i", "t", "h", "u", "b", ".", "c", "o", "m", "/", "a", "l">>],
    [email |-> <<"a", "p", "i", "@", "x", ".", "i", "o">>, bio |-> None, blog |-> None,
     twitter_username |-> None, name |-> None, html_url |-> <<"h", "t", "t", "p", "s", ":", "/", "/", "g", "i", "t", "h", "u", "b", ".", "c", "o", "m", "/", "a", "l">>],
    [email |-> None, bio |-> <<"m", "a", "i", "l", " ", "b", "i", "o", "@", "x", ".", "i", "o", " ", "o", "r", " ", "b", "2", "@", "x", ".", "i", "o">>, blog |-> None,
     twitter_username |-> None, name |-> <<"B", "o">>, html_url |-> <<"h", "t", "t", "p", "s", ":", "/", "/", "g", "i", "t", "h", "u", "b", ".", "c", "o", "m", "/", "b", "o">>],
    [email |-> <<>>, bio |-> <<"s", "e", "e", " ", "h", "t", "t", "p", "s", ":", "/", "/", "w", "w", "w", ".", "l", "i", "n", "k", "e", "d", "i", "n", ".", "c", "o", "m", "/", "i", "n", "/", "u">>, blog |-> <<"h", "t", "t", "p", "s", ":", "/", "/", "b", "l", "o", "g", ".", "i", "o">>,
     twitter_username |-> None, name |-> None, html_url |-> <<"h", "t", "t", "p", "s", ":", "/", "/", "g", "i", "t", "h", "u", "b", ".", "c", "o", "m", "/", "b", "o">>],
    [email |-> None, bio |-> None, blog |-> <<>>,
     twitter_username |-> None, name |-> None, html_url |-> <<"h", "t", "t", "p", "s", ":", "/", "/", "g", "i", "t", "h", "u", "b", ".", "c", "o", "m", "/", "b", "o">>] }

ProfileResponses ==
    {[raised |-> TRUE, status |-> 0, ud |-> NoProfile],
     [raised |-> FALSE, status |-> 404, ud |-> NoProfile]}
    \cup {[raised |-> FALSE, status |-> 200, ud |-> u] : u \in Profiles}

\* the profile page, as the anchors' hrefs and the visible text
ScrapeNotCalled ==
    [called |-> FALSE, raised |-> FALSE, status |-> 0, anchors |-> <<>>, text |-> <<>>]
ScrapeResponses == {
    [called |-> TRUE, raised |-> TRUE, status |-> 0, anchors |-> <<>>, text |-> <<>>],
    [called |-> TRUE, raised |-> FALSE, status |-> 404, anchors |-> <<>>, text |-> <<>>],
    [called |-> TRUE, raised |-> FALSE, status |-> 200,
     anchors |-> <<<<"m", "a", "i", "l", "t", "o", ":", "s", "c", "r", "@", "x", ".", "i", "o">>, <<"h", "t", "t", "p", "s", ":", "/", "/", "l", "i", "n", "k", "e", "d", "i", "n", ".", "c", "o", "m", "/", "i", "n", "/", "s">>>>,
     text |-> <<>>],
    [called |-> TRUE, raised |-> FALSE, status |-> 200,
     anchors |-> <<>>,
     text |-> <<"c", "o", "n", "t", "a", "c", "t", " ", "t", "x", "t", "@", "x", ".", "i", "o">>],
    [called |-> TRUE, raised |-> FALSE, status |-> 200,
     anchors |-> <<<<"/", "/", "w", "w", "w", ".", "l", "i", "n", "k", "e", "d", "i", "n", ".", "c", "o", "m", "/", "i", "n", "/", "s">>>>,
     text |-> <<"n", "o", " ", "m", "a", "i", "l">>] }

EventsNotCalled == [called |-> FALSE, raised |-> FALSE, status |-> 0, events |-> <<>>]
EventsResponses == {
    [called |-> TRUE, raised |-> TRUE, status |-> 0, events |-> <<>>],
    [called |-> TRUE, raised |-> FALSE, status |-> 404, events |-> <<>>],
    [called |-> TRUE, raised |-> FALSE, status |-> 200, events |-> <<>>],
    [called |-> TRUE, raised |-> FALSE, status |-> 200,
     events |-> <<[type |-> "PushEvent",
                   commits |-> <<None, <<"u", "@", "u", "s", "e", "r", "s", ".", "n", "o", "r", "e", "p", "l", "y", ".", "g", "i", "t", "h", "u", "b", ".", "c", "o", "m">>>>]>>],
    [called |-> TRUE, raised |-> FALSE, status |-> 200,
     events |-> <<[type |-> "WatchEvent",
                   commits |-> <<<<"w", "@", "x", ".", "i", "o">>>>],
                  [type |-> "PushEvent",
                   commits |-> <<<<"n", "@", "n", "o", "r", "e", "p", "l", "y", ".", "i", "o">>, <<"e", "v", "t", "@", "x", ".", "i", "o">>>>]>>] }

ScrapeChoices(ud) == IF NeedsScrape(ud) THEN ScrapeResponses ELSE {ScrapeNotCalled}
EventsChoices(ud, scrape) ==
    IF NeedsEvents(ud, scrape) THEN EventsResponses ELSE {EventsNotCalled}

NoResponses ==
    [kind |-> "none", login |-> None,
     profile |-> [raised |-> FALSE, status |-> 0, ud |-> NoProfile],
     scrape |-> ScrapeNotCalled, events |-> EventsNotCalled]

\* the parts of the state a specification does not use
IdleLinks ==
    /\ text = <<>>
    /\ domains = <<>>
    /\ links_all = NotCalled
    /\ links_dom = NotCalled
IdleRun ==
    /\ company_name = <<>>
    /\ website_text = <<>>
    /\ github_text = <<>>
    /\ website_url = None
    /\ llm_githubs = <<>>
    /\ site_counts = <<>>
    /\ best_site_org_url = None
    /\ candidates = {}
    /\ pending = {}
    /\ checks = <<>>
    /\ chosen_githubs = <<>>
    /\ rendered = FALSE
    /\ member_calls = <<>>
IdleMembers ==
    /\ github_url = <<>>
    /\ items = <<>>
    /\ idx = 1
    /\ members = <<>>
    /\ result = NotCalled
    /\ last = NoResponses

InitMembers ==
    /\ pc = "call"
    /\ IdleLinks
    /\ IdleRun
    /\ github_url \in MemberUrls
    /\ items = <<>>
    /\ idx = 1
    /\ members = <<>>
    /\ result = NotCalled
    /\ last = NoResponses

\* get_github_members up to its loop: the organization of the URL and the
\* members listing
ListMembers ==
    /\ pc = "call"
    /\ \/ /\ get_org_from_github_url(github_url) = None
          /\ result' = <<>>
          /\ pc' = "returned"
          /\ UNCHANGED items
       \/ /\ get_org_from_github_url(github_url) # None
          /\ \E r \in MembersResponses(MaxMembers) :
                IF r.raised \/ r.status # 200
                THEN result' = <<>> /\ pc' = "returned" /\ UNCHANGED items
                ELSE items' = r.logins /\ pc' = "loop" /\ UNCHANGED result
    /\ UNCHANGED <<github_url, idx, members, last, linkVars, runVars>>

\* one iteration of the loop over the listing: the profile lookup, then the
\* scrape and the events scan where the waterfall calls for them.  An
\* exception of the profile lookup reaches the except clause of the function.
ProcessMember ==
    /\ pc = "loop"
    /\ idx <= Len(items)
    /\ \/ /\ Falsy(items[idx])
          /\ last' = [NoResponses EXCEPT !.kind = "nologin"]
          /\ idx' = idx + 1
          /\ UNCHANGED <<pc, members, result>>
       \/ /\ ~Falsy(items[idx])
          /\ \E p \in ProfileResponses :
                \/ /\ p.raised
                   /\ last' = [NoResponses EXCEPT !.kind = "raised",
                                                  !.login = items[idx], !.profile = p]
                   /\ result' = <<>>
                   /\ pc' = "returned"
                   /\ UNCHANGED <<idx, members>>
                \/ /\ ~p.raised /\ p.status # 200
                   /\ last' = [NoResponses EXCEPT !.kind = "skipped",
                                                  !.login = items[idx], !.profile = p]
                   /\ idx' = idx + 1
                   /\ UNCHANGED <<pc, members, result>>
                \/ /\ ~p.raised /\ p.status = 200
                   /\ \E s \in ScrapeChoices(p.ud) :
                         \E e \in EventsChoices(p.ud, s) :
                            /\ last' = [kind |-> "appended", login |-> items[idx],
                                        profile |-> p, scrape |-> s, events |-> e]
                            /\ members' = Append(members,
                                                 MemberEntry(items[idx], p.ud, s, e))
                   /\ idx' = idx + 1
                   /\ UNCHANGED <<pc, result>>
    /\ UNCHANGED <<github_url, items, linkVars, runVars>>

\* return members
ReturnMembers ==
    /\ pc = "loop"
    /\ idx > Len(items)
    /\ result' = members
    /\ pc' = "returned"
    /\ UNCHANGED <<github_url, items, idx, members, last, linkVars, runVars>>

NextMembers == ListMembers \/ ProcessMember \/ ReturnMembers

SpecMembers == InitMembers /\ [][NextMembers]_vars

(***************************************************************************)
(* The texts and domain lists the extractor is applied to                  *)
(***************************************************************************)
MaxSegs == 3

Segments == {
    <<"h", "t", "t", "p", ":", "/", "/", "x", ".", "c", "o", "m">>,
    <<"h", "t", "t", "p", ":", "/", "/", "X", ".", "C", "O", "M">>,
    <<"h", "t", "t", "p", "s", ":", "/", "/", "y", ".", "i", "o">>,
    <<"[", "l", "]", "(", "h", "t", "t", "p", ":", "/", "/", "x", ".", "c", "o", "m", "/", "r", ")">>,
    <<"[", "l", "]", "(", "h", "t", "t", "p", "s", ":", "/", "/", "y", ".", "i", "o", ",", ")">>,
    <<" ">>,
    <<".">>,
    <<"/", "r">> }

RECURSIVE TextsOf(_)
TextsOf(n) ==
    IF n = 0 THEN {<<>>}
    ELSE LET shorter == TextsOf(n - 1)
         IN  shorter \cup {t \o g : t \in shorter, g \in Segments}

DomainLists == {
    <<<<"x", ".", "c", "o", "m">>>>,
    <<<<"X", ".", "c", "o", "m">>>>,
    <<<<"y", ".", "i", "o">>, <<"x", ".", "c", "o", "m">>>> }

InitLinks ==
    /\ IdleRun
    /\ IdleMembers
    /\ text \in TextsOf(MaxSegs)
    /\ domains = <<>>
    /\ links_all = NotCalled
    /\ links_dom = NotCalled
    /\ pc = "start"

\* website_links = extract_links(text)
CallExtractLinks ==
    /\ pc = "start"
    /\ links_all' = ExtractLinks(text, <<>>)
    /\ pc' = "extracted"
    /\ UNCHANGED <<text, domains, links_dom, runVars, memberVars>>

\* extract_links(text, ["github.com"]) and the like
CallExtractLinksDomains ==
    /\ pc = "extracted"
    /\ \E d \in DomainLists :
        /\ domains' = d
        /\ links_dom' = ExtractLinks(text, d)
    /\ pc' = "filtered"
    /\ UNCHANGED <<text, links_all, runVars, memberVars>>

NextLinks == CallExtractLinks \/ CallExtractLinksDomains

SpecLinks == InitLinks /\ [][NextLinks]_vars

(***************************************************************************)
(* The dictionaries and company names the scoring is applied to           *)
(***************************************************************************)
MaxOrgs == 2
MaxCount == 2

Companies == {
    <<"A", "c", "m", "e", " ", "L", "a", "b", "s">>,
    <<"a", "c", "m", "e">>,
    <<"R", "&", "D">> }

OrgNames == {
    <<"a", "c", "m", "e", "l", "a", "b", "s">>,
    <<"r", "a", "n", "d", "o", "m", "o", "r", "g">>,
    <<"a", "c", "m", "e">>,
    <<"l", "i", "b">> }

\* occurrence counts: the small ones, and the 10 of the documented example
CountValues == (1..MaxCount) \cup {10}

RECURSIVE CountDicts(_)
CountDicts(n) ==
    IF n = 0 THEN {<<>>}
    ELSE LET shorter == CountDicts(n - 1)
         IN  shorter \cup
             {Append(d, <<o, c>>) : d \in {e \in shorter : Len(e) = n - 1},
                                    o \in OrgNames, c \in CountValues}

DistinctKeys(d) == \A i, j \in 1..Len(d) : i # j => d[i][1] # d[j][1]

InitScore ==
    /\ pc = "score"
    /\ IdleLinks
    /\ IdleMembers
    /\ company_name \in Companies
    /\ site_counts \in {d \in CountDicts(MaxOrgs) : DistinctKeys(d)}
    /\ best_site_org_url = NotCalled
    /\ website_text = <<>>
    /\ github_text = <<>>
    /\ website_url = None
    /\ llm_githubs = <<>>
    /\ candidates = {}
    /\ pending = {}
    /\ checks = <<>>
    /\ chosen_githubs = <<>>
    /\ rendered = FALSE
    /\ member_calls = <<>>

\* best_site_org_url = choose_best_org_from_site(site_counts, company_name)
CallChooseBest ==
    /\ pc = "score"
    /\ best_site_org_url' = choose_best_org_from_site(site_counts, company_name)
    /\ pc' = "scored"
    /\ UNCHANGED <<company_name, website_text, github_text, website_url,
                   llm_githubs, site_counts, candidates, pending, checks,
                   chosen_githubs, rendered, member_calls, linkVars, memberVars>>

NextScore == CallChooseBest

SpecScore == InitScore /\ [][NextScore]_vars

(***************************************************************************)
(* filter_github_orgs                                                      *)
(***************************************************************************)
\* a list that takes the organization whatever the check answered
AppendAlways(valid_orgs, org, status) == Append(valid_orgs, OrgUrl(org))

\* if r.status_code == 200: valid_orgs.append(f"https://github.com/{org}")
AppendIfExists(valid_orgs, org, status) ==
    IF status = 200 THEN Append(valid_orgs, OrgUrl(org)) ELSE valid_orgs

(***************************************************************************)
(* The search run: the body of the Search button                           *)
(***************************************************************************)
GithubDomain == <<"g", "i", "t", "h", "u", "b", ".", "c", "o", "m">>

\* names that pass "if not company_name.strip()"
RunCompanies == {
    <<"A", "c", "m", "e", " ", "L", "a", "b", "s">>,
    <<"l", "i", "b">> }

\* what query_exa answers on the Website topic; <<>> is also what a raised
\* exception leaves in report_sections
WebsiteTexts == {
    <<>>,
    <<"[", "S", "i", "t", "e", "]", "(", "h", "t", "t", "p", "s", ":", "/", "/",
      "a", "c", "m", "e", ".", "i", "o", ")">> }

\* ... and on the GitHub topic
GithubTexts == {
    <<>>,
    <<"h", "t", "t", "p", "s", ":", "/", "/", "g", "i", "t", "h", "u", "b", ".",
      "c", "o", "m", "/", "A", "c", "m", "e", "/", "r", "e", "p", "o", " ",
      "h", "t", "t", "p", "s", ":", "/", "/", "g", "i", "t", "h", "u", "b", ".",
      "c", "o", "m", "/", "A", "c", "m", "e">>,
    <<"[", "g", "h", "]", "(", "h", "t", "t", "p", "s", ":", "/", "/", "g", "i",
      "t", "h", "u", "b", ".", "c", "o", "m", "/", "o", "t", "h", "e", "r", ")",
      " ", "h", "t", "t", "p", "s", ":", "/", "/", "g", "i", "t", "h", "u", "b",
      ".", "c", "o", "m">> }

\* what the GET of the website answers
SiteBodies == {
    <<>>,
    <<"g", "i", "t", "h", "u", "b", ".", "c", "o", "m", "/", "a", "c", "m", "e",
      "/", "s", "d", "k", " ", "G", "i", "t", "H", "u", "b", ".", "c", "o", "m",
      "/", "A", "c", "m", "e", " ", "g", "i", "t", "h", "u", "b", ".", "c", "o",
      "m", "/", "l", "i", "b">> }
SiteResponses ==
    {[raised |-> TRUE, status |-> 0, body |-> <<>>],
     [raised |-> FALSE, status |-> 404, body |-> <<>>]}
    \cup {[raised |-> FALSE, status |-> 200, body |-> b] : b \in SiteBodies}

\* what the GET of api.github.com/orgs/{org} answers
CheckResponses ==
    {[raised |-> TRUE, status |-> 0],
     [raised |-> FALSE, status |-> 404],
     [raised |-> FALSE, status |-> 200]}

InitRun ==
    /\ pc = "query"
    /\ IdleLinks
    /\ IdleMembers
    /\ company_name \in RunCompanies
    /\ website_text = <<>>
    /\ github_text = <<>>
    /\ website_url = None
    /\ llm_githubs = <<>>
    /\ site_counts = <<>>
    /\ best_site_org_url = None
    /\ candidates = {}
    /\ pending = {}
    /\ checks = <<>>
    /\ chosen_githubs = <<>>
    /\ rendered = FALSE
    /\ member_calls = <<>>

\* the three queries and the link extraction that follows them
RunQueries ==
    /\ pc = "query"
    /\ \E w \in WebsiteTexts, g \in GithubTexts :
        /\ website_text' = w
        /\ github_text' = g
        /\ website_url' = (IF ExtractLinks(w, <<>>) # <<>>
                           THEN ExtractLinks(w, <<>>)[1] ELSE None)
        /\ llm_githubs' = ExtractLinks(g, <<GithubDomain>>)
    /\ pc' = "select"
    /\ UNCHANGED <<company_name, site_counts, best_site_org_url, candidates,
                   pending, checks, chosen_githubs, rendered, member_calls,
                   linkVars, memberVars>>

\* the organizations the site scan proposes: the best one and every key
SiteCandidates(counts, best) ==
    (IF best # None THEN {best} ELSE {})
    \cup {OrgUrl(counts[i][1]) : i \in 1..Len(counts)}

\* a selection that falls back to the LLM's links only when the site gave none
SelectFallback(site_urls, llm) ==
    IF site_urls # {} THEN site_urls ELSE SeqRange(llm)

\* chosen_githubs after the two loops that fill the set
SelectUnion(site_urls, llm) == site_urls \cup SeqRange(llm)

\* GitHub Link Selection, up to the call of filter_github_orgs
SelectGithubLinks ==
    /\ pc = "select"
    /\ \/ /\ website_url # None
          /\ \E response \in SiteResponses :
                LET counts == extract_githubs_from_site(response)
                    best == choose_best_org_from_site(counts, company_name)
                    chosen == SelectUnion(SiteCandidates(counts, best), llm_githubs)
                IN  /\ site_counts' = counts
                    /\ best_site_org_url' = best
                    /\ candidates' = chosen
                    /\ pending' = chosen
       \/ /\ website_url = None
          /\ candidates' = SelectUnion({}, llm_githubs)
          /\ pending' = SelectUnion({}, llm_githubs)
          /\ UNCHANGED <<site_counts, best_site_org_url>>
    /\ pc' = "filter"
    /\ UNCHANGED <<company_name, website_text, github_text, website_url,
                   llm_githubs, checks, chosen_githubs, rendered, member_calls,
                   linkVars, memberVars>>

\* one iteration of the loop of filter_github_orgs, over a set in whatever
\* order list() gives it; an exception of requests.get ends the script run
FilterStep ==
    /\ pc = "filter"
    /\ \E url \in pending :
        LET org == get_org_from_github_url(url)
        IN  /\ pending' = pending \ {url}
            /\ \/ /\ org = None
                  /\ UNCHANGED <<pc, checks, chosen_githubs>>
               \/ /\ org # None
                  /\ \E r \in CheckResponses :
                        /\ checks' = Append(checks, [url |-> url, org |-> org,
                                                     raised |-> r.raised,
                                                     status |-> r.status])
                        /\ IF r.raised
                           THEN pc' = "aborted" /\ UNCHANGED chosen_githubs
                           ELSE /\ pc' = pc
                                /\ chosen_githubs' =
                                       AppendIfExists(chosen_githubs, org, r.status)
    /\ UNCHANGED <<company_name, website_text, github_text, website_url,
                   llm_githubs, site_counts, best_site_org_url, candidates,
                   rendered, member_calls, linkVars, memberVars>>

\* filter_github_orgs returns, and the Output section is written
Render ==
    /\ pc = "filter"
    /\ pending = {}
    /\ rendered' = TRUE
    /\ pc' = (IF chosen_githubs # <<>> THEN "members" ELSE "done")
    /\ UNCHANGED <<company_name, website_text, github_text, website_url,
                   llm_githubs, site_counts, best_site_org_url, candidates,
                   pending, checks, chosen_githubs, member_calls,
                   linkVars, memberVars>>

\* one iteration of the GitHub Members loop: get_github_members(link), which
\* returns a list whatever its requests answer, and the rendering of the list
RenderMembers ==
    /\ pc = "members"
    /\ member_calls' = Append(member_calls, chosen_githubs[Len(member_calls) + 1])
    /\ pc' = (IF Len(member_calls) + 1 = Len(chosen_githubs) THEN "done" ELSE pc)
    /\ UNCHANGED <<company_name, website_text, github_text, website_url,
                   llm_githubs, site_counts, best_site_org_url, candidates,
                   pending, checks, chosen_githubs, rendered,
                   linkVars, memberVars>>

Next == RunQueries \/ SelectGithubLinks \/ FilterStep \/ Render \/ RenderMembers

Spec == InitRun /\ [][Next]_vars

(***************************************************************************)
(* Claims about extract_links                                              *)
(***************************************************************************)
NoDuplicates(seq) == \A i, j \in 1..Len(seq) : i # j => seq[i] # seq[j]

\* where URL u is first seen in the text: the least start of a match, of
\* either pattern, that add() turns into u
AllMatches(s) == SeqRange(MdFindIter(s, 1)) \cup SeqRange(BareFindIter(s, 1))
MatchStarts(s, u) == {m.pos : m \in {n \in AllMatches(s) : CleanUrl(n.url) = u}}
FirstSeen(s, u) == CHOOSE p \in MatchStarts(s, u) : \A r \in MatchStarts(s, u) : p <= r

\* the URLs the markdown pass yields, and a URL's rank by pass, then position
MdStarts(s, u) ==
    {MdFindIter(s, 1)[i].pos : i \in {k \in 1..Len(MdFindIter(s, 1)) :
                                        CleanUrl(MdFindIter(s, 1)[k].url) = u}}
FromMarkdown(s, u) == MdStarts(s, u) # {}
PassRank(s, u) ==
    IF FromMarkdown(s, u)
    THEN CHOOSE p \in MdStarts(s, u) : \A r \in MdStarts(s, u) : p <= r
    ELSE Len(s) + FirstSeen(s, u)

\* C4 as stated: extract_links(text) has no two equal strings and lists the
\* URLs by their first occurrence in the text, whichever pattern finds them.
C4_TextOrder ==
    links_all # NotCalled =>
        /\ NoDuplicates(links_all)
        /\ \A i, j \in 1..Len(links_all) :
              FirstSeen(text, links_all[i]) < FirstSeen(text, links_all[j]) => i < j

\* C4 amended: extract_links(text) has no two equal strings; the URLs of
\* markdown links come first, by first markdown occurrence, and the URLs only
\* the bare pattern finds follow, by first occurrence.
C4_PassOrder ==
    links_all # NotCalled =>
        /\ NoDuplicates(links_all)
        /\ \A i, j \in 1..Len(links_all) :
              i < j => PassRank(text, links_all[i]) < PassRank(text, links_all[j])

\* a bare URL stands in the text before a markdown link, and comes after it
C4_Witness ==
    /\ links_all # NotCalled
    /\ Len(links_all) >= 2
    /\ FromMarkdown(text, links_all[1])
    /\ ~FromMarkdown(text, links_all[2])
    /\ FirstSeen(text, links_all[2]) < FirstSeen(text, links_all[1])

RECURSIVE IsSubsequence(_, _)
IsSubsequence(a, b) ==
    IF a = <<>> THEN TRUE
    ELSE IF b = <<>> THEN FALSE
    ELSE IF Head(a) = Head(b) THEN IsSubsequence(Tail(a), Tail(b))
    ELSE IsSubsequence(a, Tail(b))

\* C5 as stated: extract_links(text, D) is a subsequence of extract_links(text)
\* and every returned URL contains an element of D as a substring, as written.
C5_ContainsDomain ==
    links_dom # NotCalled =>
        /\ IsSubsequence(links_dom, links_all)
        /\ \A i \in 1..Len(links_dom) :
              \E k \in 1..Len(domains) : Contains(links_dom[i], domains[k])

\* C5 amended: extract_links(text, D) is a subsequence of extract_links(text)
\* and every returned URL, lowercased, contains a lowercased element of D.
C5_ContainsDomainFolded ==
    links_dom # NotCalled =>
        /\ IsSubsequence(links_dom, links_all)
        /\ \A i \in 1..Len(links_dom) :
              \E k \in 1..Len(domains) :
                  Contains(Lower(links_dom[i]), Lower(domains[k]))

\* the filter kept a URL written in upper case and dropped another URL
C5_Witness ==
    /\ links_dom # NotCalled
    /\ Len(links_dom) < Len(links_all)
    /\ \E i \in 1..Len(links_dom) : links_dom[i] # Lower(links_dom[i])

(***************************************************************************)
(* Claims about choose_best_org_from_site                                  *)
(***************************************************************************)
\* the tokens of the lowercased company name, as <<first, last>> positions of
\* its maximal runs of lowercase letters and digits
TokenSpans(lc) ==
    {<<a, b>> \in (1..Len(lc)) \X (1..Len(lc)) :
        /\ a <= b
        /\ \A k \in a..b : lc[k] \in LowerChars \cup DigitChars
        /\ (a = 1 \/ lc[a - 1] \notin LowerChars \cup DigitChars)
        /\ (b = Len(lc) \/ lc[b + 1] \notin LowerChars \cup DigitChars)}

\* the score the scoring rule gives an organization
RuleScore(org, count, name) ==
    LET lc == Lower(name)
        hits == {sp \in TokenSpans(lc) : Contains(org, SubSeq(lc, sp[1], sp[2]))}
    IN  count
        + (IF Contains(lc, org) \/ hits # {} THEN 5 ELSE 0)
        + 2 * Cardinality(hits)

ItemScore(i) == RuleScore(site_counts[i][1], site_counts[i][2], company_name)

\* C10: choose_best_org_from_site returns the root URL of the first key, in
\* iteration order, among those of maximal score, and None only for an empty
\* dictionary.
C10_FirstMaximalScore ==
    pc = "scored" =>
        IF site_counts = <<>> THEN best_site_org_url = None
        ELSE \E i \in 1..Len(site_counts) :
                /\ best_site_org_url = OrgUrl(site_counts[i][1])
                /\ \A j \in 1..Len(site_counts) : ItemScore(j) <= ItemScore(i)
                /\ \A j \in 1..(i - 1) : ItemScore(j) < ItemScore(i)

\* the documented example: "Acme Labs", {"acmelabs": 1, "randomorg": 10}, a
\* tie at 10 that the first key wins
C10_Witness ==
    /\ pc = "scored"
    /\ company_name = <<"A", "c", "m", "e", " ", "L", "a", "b", "s">>
    /\ site_counts = << <<<<"a", "c", "m", "e", "l", "a", "b", "s">>, 1>>,
                        <<<<"r", "a", "n", "d", "o", "m", "o", "r", "g">>, 10>> >>
    /\ ItemScore(1) = ItemScore(2)
    /\ best_site_org_url = OrgUrl(<<"a", "c", "m", "e", "l", "a", "b", "s">>)

(***************************************************************************)
(* Claims about the search run                                             *)
(***************************************************************************)
FilterReturned == pc \in {"members", "done"}
Terminated == pc \in {"done", "aborted"}

\* the existence checks that answered with the given status
ChecksWith(status) ==
    {i \in 1..Len(checks) : ~checks[i].raised /\ checks[i].status = status}

\* C1: every URL of the resolved list is the root URL of an organization
\* whose existence check answered 200 in this run, and a candidate whose check
\* answered anything else adds no entry, whatever its score or provenance.
C1_OnlyExistingOrgs ==
    /\ \A i \in 1..Len(chosen_githubs) :
          \E k \in ChecksWith(200) : chosen_githubs[i] = OrgUrl(checks[k].org)
    /\ Len(chosen_githubs) = Cardinality(ChecksWith(200))
    /\ \A i \in 1..Len(member_calls) : InSeq(member_calls[i], chosen_githubs)

\* the top-scoring site organization failed its check and is not in the
\* list, which holds another organization
C1_Witness ==
    /\ pc = "done"
    /\ chosen_githubs # <<>>
    /\ best_site_org_url # None
    /\ \E k \in ChecksWith(404) : checks[k].url = best_site_org_url
    /\ ~InSeq(best_site_org_url, chosen_githubs)

\* C2: no failure of an external call is fatal: whatever the website fetch
\* and the existence checks answer, the run handles every candidate and ends
\* with the output rendered.
C2_NoFatalFailure ==
    Terminated => rendered /\ pending = {}

\* C8 as stated: the LLM's links are validated only when the site scan resolved
\* nothing: once a site candidate passed its check, no link that only the LLM
\* suggested is checked or listed.
SiteUrls == SiteCandidates(site_counts, best_site_org_url)
LlmOnlyUrls == SeqRange(llm_githubs) \ SiteUrls
C8_LlmOnlyAsFallback ==
    (\E k \in ChecksWith(200) : checks[k].url \in SiteUrls) =>
        \A k \in 1..Len(checks) : checks[k].url \notin LlmOnlyUrls

\* C8 amended: the LLM's links are candidates in every run, whatever the site
\* scan gave: they are merged with the site candidates, and when
\* filter_github_orgs returns every candidate naming an organization has been
\* checked, its root URL listed when the check answered 200.
C8_LlmAlwaysCandidates ==
    /\ pc \notin {"query", "select"} =>
          candidates = SiteUrls \cup SeqRange(llm_githubs)
    /\ FilterReturned =>
          \A url \in candidates :
              get_org_from_github_url(url) # None =>
                  \E k \in 1..Len(checks) :
                      /\ checks[k].url = url
                      /\ (checks[k].status = 200 =>
                              InSeq(OrgUrl(checks[k].org), chosen_githubs))

\* a site candidate passed its check, and so did a link that only the LLM gave
C8_Witness ==
    /\ pc = "done"
    /\ \E k \in ChecksWith(200) : checks[k].url \in SiteUrls
    /\ \E k \in ChecksWith(200) :
          /\ checks[k].url \in LlmOnlyUrls
          /\ InSeq(OrgUrl(checks[k].org), chosen_githubs)

\* C9: the resolved list holds each organization URL at most once, and
\* get_github_members is called at most once for an organization.
C9_ResolvedListIsSet ==
    FilterReturned => NoDuplicates(chosen_githubs) /\ NoDuplicates(member_calls)

(***************************************************************************)
(* Claims about get_github_members                                         *)
(***************************************************************************)
RECURSIVE LoginsOf(_)
LoginsOf(listing) ==
    IF listing = <<>> THEN <<>>
    ELSE (IF Falsy(Head(listing)) THEN <<>> ELSE <<Head(listing)>>)
         \o LoginsOf(Tail(listing))

\* C3: the list get_github_members returns has an entry for every login of
\* the members listing, in the listing's order, whatever the per-member calls
\* answered.
C3_EveryMemberReturned ==
    pc = "returned" =>
        [i \in 1..Len(result) |-> result[i].login] = LoginsOf(items)

\* an email-shaped substring (a local part, "@", a domain part, a "." and
\* at least two letters) starts at position i of s
EmailShapeStartsAt(s, i) ==
    \E a \in {k \in (i + 1)..Len(s) : s[k] = "@"} :
        /\ \A k \in i..(a - 1) : s[k] \in EmailLocal
        /\ \E d \in {k \in (a + 2)..(Len(s) - 2) : s[k] = "."} :
              /\ \A k \in (a + 1)..(d - 1) : s[k] \in EmailDomain
              /\ s[d + 1] \in Letters
              /\ s[d + 2] \in Letters

\* w as a whole is email-shaped
IsEmailShaped(w) ==
    /\ EmailShapeStartsAt(w, 1)
    /\ \E d \in {k \in 1..(Len(w) - 2) : w[k] = "."} :
          /\ \A k \in (d + 1)..Len(w) : w[k] \in Letters
          /\ \E a \in {k \in 2..(d - 2) : w[k] = "@"} :
                /\ \A k \in 1..(a - 1) : w[k] \in EmailLocal
                /\ \A k \in (a + 1)..(d - 1) : w[k] \in EmailDomain

HasEmailShape(s) == \E i \in 1..Len(s) : EmailShapeStartsAt(s, i)

\* a value that holds no address: None, or the empty string
Absent(v) == v = None \/ v = <<>>

Appended == last.kind = "appended"
LastEntry == members[Len(members)]
LastProfile == last.profile.ud

\* the events response, when one was asked for, has no push commit with a
\* usable author email
NoUsableEventEmail ==
    last.events.called /\ ~last.events.raised /\ last.events.status = 200 =>
        \A i \in 1..Len(last.events.events) :
            last.events.events[i].type = "PushEvent" =>
                \A k \in 1..Len(last.events.events[i].commits) :
                    \/ Absent(last.events.events[i].commits[k])
                    \/ Contains(last.events.events[i].commits[k], Noreply)

\* the profile page, when it was fetched, has no mailto anchor and no
\* email-shaped text
NoScrapedEmail ==
    last.scrape.called /\ ~last.scrape.raised /\ last.scrape.status = 200 =>
        /\ \A i \in 1..Len(last.scrape.anchors) :
              ~StartsWithAt(Lower(Strip(last.scrape.anchors[i])), 1, MailtoPrefix)
        /\ ~HasEmailShape(last.scrape.text)

\* C6 as stated: with no email in the profile field, none in the bio and no
\* usable push-event email, the member's email is absent, whatever the
\* profile page holds.
C6_EmailAbsent ==
    Appended /\ Absent(LastProfile.email) /\ ~HasEmailShape(BioOf(LastProfile))
        /\ NoUsableEventEmail
    => Absent(LastEntry.email)

\* C6 amended: with no email in the profile field, none in the bio, none on
\* the scraped profile page and no usable push-event email, the member's
\* email is absent.
C6_EmailAbsentNoScrape ==
    Appended /\ Absent(LastProfile.email) /\ ~HasEmailShape(BioOf(LastProfile))
        /\ NoScrapedEmail /\ NoUsableEventEmail
    => Absent(LastEntry.email)

\* every source was asked and none had an email: the page has a LinkedIn
\* anchor only, the push commits noreply addresses only
C6_Witness ==
    /\ Appended
    /\ Absent(LastProfile.email) /\ ~HasEmailShape(BioOf(LastProfile))
    /\ last.scrape.called /\ last.scrape.status = 200 /\ last.scrape.anchors # <<>>
    /\ NoScrapedEmail
    /\ last.events.called /\ last.events.status = 200 /\ last.events.events # <<>>
    /\ NoUsableEventEmail
    /\ LastEntry.email = None

\* C7: a non-empty profile email is the member's email; with an empty one and
\* an email-shaped substring in the bio, the member's email is the first such
\* substring of the bio, whatever the scrape and the events hold.
C7_EmailPrecedence ==
    Appended =>
        /\ ~Absent(LastProfile.email) => LastEntry.email = LastProfile.email
        /\ Absent(LastProfile.email) /\ HasEmailShape(BioOf(LastProfile)) =>
              /\ IsEmailShaped(LastEntry.email)
              /\ \E q \in 1..Len(BioOf(LastProfile)) :
                    /\ StartsWithAt(BioOf(LastProfile), q, LastEntry.email)
                    /\ \A i \in 1..(q - 1) : ~EmailShapeStartsAt(BioOf(LastProfile), i)

\* the bio supplied the email although the scraped page had a mailto anchor
C7_Witness ==
    /\ Appended
    /\ Absent(LastProfile.email) /\ HasEmailShape(BioOf(LastProfile))
    /\ last.scrape.called /\ last.scrape.status = 200
    /\ ~NoScrapedEmail
    /\ LastEntry.email # scrape_github_profile_for_contacts(last.scrape)[2]
    /\ Contains(BioOf(LastProfile), LastEntry.email)

====
